---- MODULE Spec2Model ----
(***************************************************************************)
(* The pooled query gateway of algernon: the Lua functions MSSQL(query,    *)
(* connectionString, args) and PQ(query, connectionString).  Both keep a   *)
(* process-wide map reuseDB from connection string to *sql.DB, protected   *)
(* by the reader/writer lock reuseMut, and share the same handler shape:   *)
(* look up, ping, delete when stale, open, insert, query, convert rows.    *)
(***************************************************************************)
EXTENDS Integers, Sequences, FiniteSets, TLC

\* ------------------------------------------------------------------ bounds
NCallers == 2      \* concurrent Lua states calling the function
MaxCalls == 3      \* calls started in one behaviour, over all callers
MaxConns == 2      \* connections sql.Open hands out in one behaviour
MaxRows == 5       \* rows a cursor yields
MaxArgs == 3       \* entries of a parameter table
MaxNum == 3        \* largest number a backend value carries

Callers == 1..NCallers
None == 0          \* nil: no caller, no connection

\* the connection strings the callers pass
Descriptors == {"server=a", "server=b"}

\* Line numbers are those of the MSSQL handler; PQ's handler has the same
\* statements in the same order, without args and rows.Columns().
VARIABLES
    reuseDB,           \* l.25: the map, as a set of <<connectionString, conn>> entries
    reuseMut,          \* l.26: [w: the caller holding Lock or None, r: callers holding RLock]
    opened,            \* l.145: opened[i] is the connection string sql.Open made connection i from
    pc,                \* each caller's position in the handler
    connectionString,  \* l.102: per caller, the handler's local connectionString
    args,              \* per caller: the parameter table (third argument), as the
                       \*   sequence of <<key, value>> entries ForEach enumerates
    queryArgs,         \* l.108: per caller, the arguments bound for db.Query
    conn, ok,          \* l.124: per caller, the result of the map lookup
    db,                \* l.122: per caller, the connection the query runs on, or None
    err,               \* l.143: per caller, the last error value, or NoErr
    rows,              \* l.157: per caller, what db.Query returned
    ret,               \* per caller: [n: number of results returned, stack: values pushed]
    logged,            \* per caller: the log records of the current call
    ncalls,            \* calls begun so far
    stale,             \* connections that failed a ping
    engine,            \* "MSSQL" or "PQ": which of the two Lua functions this process serves
    scanner,           \* l.30: an LValueWrapper that database/sql scans values into, one after
                       \*   the other: [w: the wrapper, value: the value of the last Scan,
                       \*   failed: whether that Scan returned an error]
    env                \* the surroundings: [callers: the Lua states that call the function,
                       \*   flaky: whether a ping can fail, errs: the error texts open and query produce,
                       \*   maxRows: the longest cursor it returns,
                       \*   maxArgs: the largest parameter table a caller passes]

vars == <<reuseDB, reuseMut, opened, pc, connectionString, args, queryArgs, conn, ok, db, err,
          rows, ret, logged, ncalls, stale, engine, env, scanner>>

shared == <<reuseDB, reuseMut, opened>>
history == <<ncalls, stale>>
params == <<connectionString, args, queryArgs>>
fixed == <<engine, env, scanner>>

\* ------------------------------------------------------- the map (Go map)
\* a lookup that never finds the entry
MapGetMiss(m, key) == [conn |-> None, ok |-> FALSE]

\* conn, ok := reuseDB[key]
MapGet(m, key) ==
    IF \E p \in m : p[1] = key
    THEN [conn |-> (CHOOSE p \in m : p[1] = key)[2], ok |-> TRUE]
    ELSE [conn |-> None, ok |-> FALSE]

\* a map assignment that keeps the entry it should replace
MapPutKeepsOld(m, key, val) == m \cup {<<key, val>>}

\* a map assignment that leaves an entry that is already there alone
MapPutIfAbsent(m, key, val) ==
    IF \E p \in m : p[1] = key THEN m ELSE m \cup {<<key, val>>}

\* reuseDB[key] = val
MapPut(m, key, val) == {p \in m : p[1] # key} \cup {<<key, val>>}

\* a delete that removes nothing
MapDeleteNothing(m, key) == m

\* delete(reuseDB, key)
MapDelete(m, key) == {p \in m : p[1] # key}

\* db.Close(): the connections that were closed.  Neither handler ever calls
\* Close on a connection, whatever becomes of it.
closed == {}

\* -------------------------------------------------------------- errors
NoErr == [set |-> FALSE, refused |-> FALSE, missing |-> FALSE, inconn |-> FALSE]

\* An error text, by the three substrings the handler looks for:
\* ": connect: connection refused", "missing", "in connection info string".
ErrTexts ==
    { [set |-> TRUE, refused |-> r, missing |-> m, inconn |-> i] :
        r \in BOOLEAN, m \in BOOLEAN, i \in {FALSE} }
    \cup { [set |-> TRUE, refused |-> FALSE, missing |-> TRUE, inconn |-> TRUE] }

\* the if / else if / else over strings.Contains(errMsg, ...)
Classify(errMsg) ==
    IF errMsg.refused THEN "connectivity"
    ELSE IF errMsg.missing /\ errMsg.inconn THEN "malformed"
    ELSE "generic"

\* the log records the query-failure branch writes, as <<level, what>>
QueryErrLog(errMsg) ==
    IF Classify(errMsg) = "connectivity"
    THEN << <<"info", "connection string">>, <<"info", "query">>,
            <<"error", "Could not connect to database">> >>
    ELSE IF Classify(errMsg) = "malformed"
    THEN << <<"info", "connection string">>, <<"info", "query">>,
            <<"error", "errMsg">> >>
    ELSE << <<"info", "query">>, <<"error", "Query failed">> >>

\* -------------------------------------------------------- return values
EmptyTable == << >>
NoResults == [n |-> 0, stack |-> << >>]          \* return 0
OneResult(t) == [n |-> 1, stack |-> <<t>>]       \* L.Push(t); return 1

\* a query-failure branch that hands back an empty table for a generic failure
QueryErrReturnLenient(errMsg) ==
    IF Classify(errMsg) = "generic" THEN OneResult(EmptyTable) ELSE NoResults

\* what the handler returns when db.Query fails: return 0 in all three branches
QueryErrReturn(errMsg) ==
    IF Classify(errMsg) = "connectivity" THEN NoResults
    ELSE IF Classify(errMsg) = "malformed" THEN NoResults
    ELSE NoResults

\* ------------------------------------------------- values and row scanning
\* A driver value: kind is its Go type, n its numeric payload (a time.Time is
\* n milliseconds after the epoch), s its text payload.
DV(kind, n, s) == [kind |-> kind, n |-> n, s |-> s]

\* A Lua value.
LNil == [t |-> "nil", n |-> 0, s |-> ""]
LNumber(n) == [t |-> "number", n |-> n, s |-> ""]
LString(s) == [t |-> "string", n |-> 0, s |-> s]
LBool(b) == [t |-> "boolean", n |-> IF b THEN 1 ELSE 0, s |-> ""]
LTable(id) == [t |-> "table", n |-> id, s |-> ""]   \* a table, by its address
Unset == [t |-> "unset", n |-> 0, s |-> ""]      \* the zero LValueWrapper

\* the decimal text of an integer (fmt.Sprint(int64(n)))
Digits == <<"0", "1", "2", "3", "4", "5", "6", "7", "8", "9">>
RECURSIVE NatString(_)
NatString(n) == IF n < 10 THEN Digits[n + 1] ELSE NatString(n \div 10) \o Digits[(n % 10) + 1]
NumberString(n) == IF n < 0 THEN "-" \o NatString(0 - n) ELSE NatString(n)

\* lua.LValue.String(): the text of a Lua value
LuaString(v) ==
    IF v.t = "string" THEN v.s
    ELSE IF v.t = "number" THEN NumberString(v.n)
    ELSE IF v.t = "boolean" THEN (IF v.n = 1 THEN "true" ELSE "false")
    ELSE IF v.t = "nil" THEN "nil"
    ELSE "table: 0x" \o NatString(v.n)

\* --------------------------------------------------------- parameter binding
\* an argument of db.Query: a plain value, or sql.Named(name, value)
Positional(value) == [named |-> FALSE, name |-> "", value |-> value]
Named(name, value) == [named |-> TRUE, name |-> name, value |-> value]

\* a binding that passes the string-keyed entries on as plain values too
RECURSIVE ForEachBindAllPositional(_, _, _)
ForEachBindAllPositional(tb, i, qa) ==
    IF i > Len(tb) THEN qa
    ELSE IF tb[i][1].t \in {"number", "string"}
    THEN ForEachBindAllPositional(tb, i + 1, Append(qa, Positional(LuaString(tb[i][2]))))
    ELSE ForEachBindAllPositional(tb, i + 1, qa)

\* args.ForEach(func(k, v) { switch k.Type() { case LTNumber: append v.String();
\* case LTString: append sql.Named(k.String(), v.String()) } })
\* i is the next entry of the enumeration, qa the arguments bound so far
RECURSIVE ForEachBind(_, _, _)
ForEachBind(tb, i, qa) ==
    IF i > Len(tb) THEN qa
    ELSE IF tb[i][1].t = "number"
    THEN ForEachBind(tb, i + 1, Append(qa, Positional(LuaString(tb[i][2]))))
    ELSE IF tb[i][1].t = "string"
    THEN ForEachBind(tb, i + 1, Append(qa, Named(LuaString(tb[i][1]), LuaString(tb[i][2]))))
    ELSE ForEachBind(tb, i + 1, qa)

\* var queryArgs []any; if L.GetTop() >= 3 { ... }: PQ takes no parameters
BindArgs(e, tb) == IF e = "MSSQL" THEN ForEachBind(tb, 1, << >>) ELSE << >>

\* the entries the callers build their parameter tables from: numeric, string
\* and boolean keys; string, number and table values
EntryPool ==
    { <<LNumber(1), LString("a")>>, <<LNumber(2), LString("b")>>,
      <<LString("x"), LString("y")>>, <<LString("n"), LNumber(17)>>,
      <<LBool(TRUE), LString("z")>>, <<LNumber(3), LTable(1)>> }

\* the enumerations of the tables of at most n entries (keys are distinct)
RECURSIVE Tables(_)
Tables(n) ==
    IF n = 0 THEN { << >> }
    ELSE LET shorter == Tables(n - 1)
         IN shorter \cup
            { Append(qx[1], qx[2]) :
                qx \in { qy \in shorter \X EntryPool :
                           \A i \in 1..Len(qy[1]) : qy[1][i][1] # qy[2][1] } }

\* time.Time.Unix(): whole seconds, fraction discarded
Unix(ms) == ms \div 1000

\* a Scan whose default branch clears the wrapper before it returns the error
ScanIntoClears(w, value) ==
    IF value.kind = "null" THEN [ok |-> TRUE, w |-> LNil]
    ELSE IF value.kind \in {"float32", "float64", "int64"} THEN [ok |-> TRUE, w |-> LNumber(value.n)]
    ELSE IF value.kind \in {"string", "bytes"} THEN [ok |-> TRUE, w |-> LString(value.s)]
    ELSE IF value.kind = "time" THEN [ok |-> TRUE, w |-> LNumber(Unix(value.n))]
    ELSE [ok |-> FALSE, w |-> Unset]

\* func (w *LValueWrapper) Scan(value any) error: the wrapper after the call
\* and whether the call returned nil.  The conversions float64(v) of a float32
\* and of an int64 are exact for the numbers of the model.
ScanInto(w, value) ==
    IF value.kind = "null" THEN [ok |-> TRUE, w |-> LNil]
    ELSE IF value.kind = "float32" THEN [ok |-> TRUE, w |-> LNumber(value.n)]
    ELSE IF value.kind = "float64" THEN [ok |-> TRUE, w |-> LNumber(value.n)]
    ELSE IF value.kind = "int64" THEN [ok |-> TRUE, w |-> LNumber(value.n)]
    ELSE IF value.kind = "string" THEN [ok |-> TRUE, w |-> LString(value.s)]
    ELSE IF value.kind = "bytes" THEN [ok |-> TRUE, w |-> LString(value.s)]
    ELSE IF value.kind = "time" THEN [ok |-> TRUE, w |-> LNumber(Unix(value.n))]
    ELSE [ok |-> FALSE, w |-> w]

\* Scan applied to a zero wrapper, as the row loop does
Scan(value) == ScanInto(Unset, value)

\* rows.Scan(values.Interfaces()...): every column is scanned into its wrapper,
\* in column order; the first column whose Scan fails fails the row.
ScanRow(row) ==
    [ok |-> \A i \in 1..Len(row) : Scan(row[i]).ok,
     values |-> [i \in 1..Len(row) |-> Scan(row[i]).w]]

\* a row map that keeps the first of two columns of the same name
RowMapFirstWins(cols, values) ==
    [name \in {cols[i] : i \in 1..Len(cols)} |->
        values[CHOOSE i \in 1..Len(cols) :
                  /\ cols[i] = name
                  /\ \A j \in 1..Len(cols) : cols[j] = name => i <= j]]

\* m = make(map[string]lua.LValue); for i, v := range values.Unwrap() { m[cols[i]] = v }
RowMap(cols, values) ==
    [name \in {cols[i] : i \in 1..Len(cols)} |->
        values[CHOOSE i \in 1..Len(cols) :
                  /\ cols[i] = name
                  /\ \A j \in 1..Len(cols) : cols[j] = name => j <= i]]

\* the row loop that goes on after a row fails to scan
RECURSIVE ScanLoopSkips(_, _, _, _)
ScanLoopSkips(cols, data, i, maps) ==
    IF i > Len(data) THEN maps
    ELSE IF ~ScanRow(data[i]).ok THEN ScanLoopSkips(cols, data, i + 1, maps)
    ELSE ScanLoopSkips(cols, data, i + 1,
                       Append(maps, RowMap(cols, ScanRow(data[i]).values)))

\* for rows.Next() { err = rows.Scan(...); if err != nil { break }; maps = append(maps, m) }
\* i is the next row of the cursor, maps the rows gathered so far
RECURSIVE ScanLoop(_, _, _, _)
ScanLoop(cols, data, i, maps) ==
    IF i > Len(data) THEN maps
    ELSE IF ~ScanRow(data[i]).ok THEN maps
    ELSE ScanLoop(cols, data, i + 1,
                  Append(maps, RowMap(cols, ScanRow(data[i]).values)))

\* convert.LValueMaps2table: a Lua array of row tables, each keyed by column name
LValueMaps2table(maps) ==
    [i \in 1..Len(maps) |-> [k \in DOMAIN maps[i] |-> maps[i][k]]]

\* rows.Scan(&value) with value a string: one destination, so the row must have
\* one column; NULL does not convert to a string; text and bytes are taken as
\* they are and the other kinds are formatted (a time as its timestamp text).
ScanString(row) ==
    IF Len(row) # 1 THEN [ok |-> FALSE, value |-> ""]
    ELSE IF row[1].kind = "null" THEN [ok |-> FALSE, value |-> ""]
    ELSE IF row[1].kind \in {"string", "bytes"} THEN [ok |-> TRUE, value |-> row[1].s]
    ELSE IF row[1].kind = "bool"
    THEN [ok |-> TRUE, value |-> IF row[1].n = 1 THEN "true" ELSE "false"]
    ELSE IF row[1].kind = "time"
    THEN [ok |-> TRUE, value |-> "T+" \o NumberString(row[1].n) \o "ms"]
    ELSE [ok |-> TRUE, value |-> NumberString(row[1].n)]

\* for rows.Next() { err = rows.Scan(&value); if err != nil { break }; values = append(values, value) }
RECURSIVE ScanStrings(_, _, _)
ScanStrings(data, i, values) ==
    IF i > Len(data) THEN values
    ELSE IF ~ScanString(data[i]).ok THEN values
    ELSE ScanStrings(data, i + 1, Append(values, ScanString(data[i]).value))

\* convert.Strings2table: a Lua array of strings
Strings2table(values) == [i \in 1..Len(values) |-> LString(values[i])]

\* what db.Query returned: nothing yet, a nil *sql.Rows, or a cursor
NoRows == [kind |-> "none", cols |-> << >>, data |-> << >>]
NilRows == [kind |-> "nil", cols |-> << >>, data |-> << >>]
Cursor(cols, data) == [kind |-> "cursor", cols |-> cols, data |-> data]

\* the table the handler builds from a cursor
ResultTable(e, r) ==
    IF e = "MSSQL" THEN LValueMaps2table(ScanLoop(r.cols, r.data, 1, << >>))
    ELSE Strings2table(ScanStrings(r.data, 1, << >>))

\* --------------------------------------------------- cursors of the backend
\* the rows a backend hands out: rows that scan, with different contents, and
\* rows that do not (a bool column for MSSQL, a NULL for PQ)
RowPool(e) ==
    IF e = "MSSQL"
    THEN { <<DV("int64", 1, ""), DV("string", 0, "x")>>,
           <<DV("time", 2500, ""), DV("null", 0, "")>>,
           <<DV("int64", 1, ""), DV("bool", 1, "")>> }
    ELSE { <<DV("string", 0, "x")>>, <<DV("int64", 12, "")>>, <<DV("null", 0, "")>> }

ColsOf(e) == IF e = "MSSQL" THEN <<"a", "b">> ELSE <<"version">>

\* the column names of the result sets: distinct names, and for MSSQL also a
\* result set whose two columns carry the same name (SELECT t.a, u.a ...)
ColumnLists(e) == IF e = "MSSQL" THEN {ColsOf(e), <<"a", "a">>} ELSE {ColsOf(e)}

RECURSIVE SeqsUpTo(_, _)
SeqsUpTo(S, n) ==
    IF n = 0 THEN { << >> }
    ELSE LET shorter == SeqsUpTo(S, n - 1)
         IN shorter \cup { Append(q, x) : q \in shorter, x \in S }

\* every cursor of at most n rows
\* (a backend whose cursors never have a row has result sets of one shape)
Cursors(e, n) ==
    { Cursor(cols, d) : cols \in (IF n = 0 THEN {ColsOf(e)} ELSE ColumnLists(e)),
                        d \in SeqsUpTo(RowPool(e), n) }

\* -------------------------------------------------------------- the lock
Unlocked == [w |-> None, r |-> {}]
CanRLock(c) == reuseMut.w = None
CanLock(c) == reuseMut.w = None /\ reuseMut.r = {}

\* ------------------------------------------------------------------ Init
Locals0 ==
    /\ pc = [c \in Callers |-> "idle"]
    /\ connectionString = [c \in Callers |-> ""]
    /\ args = [c \in Callers |-> << >>]
    /\ queryArgs = [c \in Callers |-> << >>]
    /\ conn = [c \in Callers |-> None]
    /\ ok = [c \in Callers |-> FALSE]
    /\ db = [c \in Callers |-> None]
    /\ err = [c \in Callers |-> NoErr]
    /\ rows = [c \in Callers |-> NoRows]
    /\ ret = [c \in Callers |-> NoResults]
    /\ logged = [c \in Callers |-> << >>]

\* the process has just started: an empty map, nobody in the handler
Fresh ==
    /\ reuseDB = {}
    /\ reuseMut = Unlocked
    /\ opened = << >>
    /\ Locals0
    /\ ncalls = 0
    /\ stale = {}
    /\ scanner = [w |-> Unset, value |-> DV("none", 0, ""), failed |-> FALSE]

GenericErr == [set |-> TRUE, refused |-> FALSE, missing |-> FALSE, inconn |-> FALSE]

\* Concurrent callers of MSSQL (PQ takes the same steps up to the query, on a
\* map and a lock of its own); the backend's answers carry little data.
Init ==
    /\ Fresh
    /\ engine = "MSSQL"
    /\ env = [callers |-> Callers, flaky |-> TRUE, errs |-> {GenericErr},
              maxRows |-> 0, maxArgs |-> 0]

\* one caller, calling again and again; the backend's answers carry every
\* error text and every cursor of up to MaxRows rows
InitSeq ==
    /\ Fresh
    /\ engine \in {"MSSQL", "PQ"}
    /\ env = [callers |-> {1}, flaky |-> TRUE, errs |-> ErrTexts,
              maxRows |-> MaxRows, maxArgs |-> 0]

\* one caller, calling again and again, and a backend that stays live: every
\* ping, open and query succeeds
InitLive ==
    /\ Fresh
    /\ engine \in {"MSSQL", "PQ"}
    /\ env = [callers |-> {1}, flaky |-> FALSE, errs |-> {},
              maxRows |-> MaxRows, maxArgs |-> 0]

\* one caller of MSSQL, calling again and again with every parameter table of
\* up to MaxArgs entries
InitBind ==
    /\ Fresh
    /\ engine = "MSSQL"
    /\ env = [callers |-> {1}, flaky |-> TRUE, errs |-> {GenericErr},
              maxRows |-> 0, maxArgs |-> MaxArgs]

\* ---------------------------------------------------------------- actions
\* the Lua function is called with connection string d and parameter table tb
Begin(c, d) ==
    /\ pc[c] = "idle"
    /\ c \in env.callers
    /\ ncalls < MaxCalls
    /\ pc' = [pc EXCEPT ![c] = "rlock"]
    /\ connectionString' = [connectionString EXCEPT ![c] = d]
    /\ \E tb \in Tables(env.maxArgs) :
          /\ args' = [args EXCEPT ![c] = tb]
          /\ queryArgs' = [queryArgs EXCEPT ![c] = BindArgs(engine, tb)]
    /\ ncalls' = ncalls + 1
    /\ UNCHANGED <<shared, conn, ok, db, err, rows, ret, logged, stale, fixed>>

\* reuseMut.RLock(); conn, ok := reuseDB[connectionString]
\* (the map cannot change while the read lock is held, so the read is taken
\* at the moment the lock is granted)
Lookup(c) ==
    /\ pc[c] = "rlock"
    /\ CanRLock(c)
    /\ reuseMut' = [reuseMut EXCEPT !.r = @ \cup {c}]
    /\ conn' = [conn EXCEPT ![c] = MapGet(reuseDB, connectionString[c]).conn]
    /\ ok' = [ok EXCEPT ![c] = MapGet(reuseDB, connectionString[c]).ok]
    /\ pc' = [pc EXCEPT ![c] = "runlock"]
    /\ UNCHANGED <<reuseDB, opened, params, db, err, rows, ret, logged,
                   history, fixed>>

\* a handler that goes on to the ping with the read lock still held
RUnlockLate(c) ==
    /\ pc[c] = "runlock"
    /\ pc' = [pc EXCEPT ![c] = IF ok[c] THEN "ping" ELSE "open"]
    /\ UNCHANGED <<shared, params, conn, ok, db, err, rows, ret, logged, history, fixed>>

\* reuseMut.RUnlock(); if ok { ... }
RUnlock(c) ==
    /\ pc[c] = "runlock"
    /\ reuseMut' = [reuseMut EXCEPT !.r = @ \ {c}]
    /\ pc' = [pc EXCEPT ![c] = IF ok[c] THEN "ping" ELSE "open"]
    /\ UNCHANGED <<reuseDB, opened, params, conn, ok, db, err, rows, ret,
                   logged, history, fixed>>

\* a handler that saves the connection again after a ping that passed
PingOkReinserts(c) ==
    /\ pc[c] = "ping"
    /\ db' = [db EXCEPT ![c] = conn[c]]
    /\ pc' = [pc EXCEPT ![c] = "ilock"]
    /\ UNCHANGED <<shared, params, conn, ok, err, rows, ret, logged,
                   history, fixed>>

\* err := conn.Ping() returns nil: db = conn
PingOk(c) ==
    /\ pc[c] = "ping"
    /\ db' = [db EXCEPT ![c] = conn[c]]
    /\ pc' = [pc EXCEPT ![c] = "qlock"]
    /\ UNCHANGED <<shared, params, conn, ok, err, rows, ret, logged,
                   history, fixed>>

\* err := conn.Ping() returns an error
PingFail(c) ==
    /\ pc[c] = "ping"
    /\ env.flaky
    /\ pc' = [pc EXCEPT ![c] = "dlock"]
    /\ stale' = stale \cup {conn[c]}
    /\ UNCHANGED <<shared, params, conn, ok, db, err, rows, ret, logged,
                   ncalls, fixed>>

\* reuseMut.Lock(); delete(reuseDB, connectionString)
\* (nobody else sees the map between the grant of the lock and the delete)
Delete(c) ==
    /\ pc[c] = "dlock"
    /\ CanLock(c)
    /\ reuseMut' = [reuseMut EXCEPT !.w = c]
    /\ reuseDB' = MapDelete(reuseDB, connectionString[c])
    /\ pc' = [pc EXCEPT ![c] = "dunlock"]
    /\ UNCHANGED <<opened, params, conn, ok, db, err, rows, ret,
                   logged, history, fixed>>

\* a handler that keeps the connection whose ping failed for its query
DUnlockReuses(c) ==
    /\ pc[c] = "dunlock"
    /\ reuseMut' = [reuseMut EXCEPT !.w = None]
    /\ db' = [db EXCEPT ![c] = conn[c]]
    /\ pc' = [pc EXCEPT ![c] = "qlock"]
    /\ UNCHANGED <<reuseDB, opened, params, conn, ok, err, rows, ret,
                   logged, history, fixed>>

\* reuseMut.Unlock() after the delete; db is nil, so the handler goes on to open
DUnlock(c) ==
    /\ pc[c] = "dunlock"
    /\ reuseMut' = [reuseMut EXCEPT !.w = None]
    /\ pc' = [pc EXCEPT ![c] = "open"]
    /\ UNCHANGED <<reuseDB, opened, params, conn, ok, db, err, rows, ret,
                   logged, history, fixed>>

\* db, err = sql.Open(driver, connectionString) returns a new connection
OpenOk(c) ==
    /\ pc[c] = "open"
    /\ Len(opened) < MaxConns
    /\ opened' = Append(opened, connectionString[c])
    /\ db' = [db EXCEPT ![c] = Len(opened) + 1]
    /\ pc' = [pc EXCEPT ![c] = "ilock"]
    /\ UNCHANGED <<reuseDB, reuseMut, params, conn, ok, err, rows, ret,
                   logged, history, fixed>>

\* a handler that saves what sql.Open returned before it looks at the error
OpenFailCaches(c) ==
    /\ pc[c] = "open"
    /\ \E e \in env.errs : err' = [err EXCEPT ![c] = e]
    /\ reuseDB' = MapPut(reuseDB, connectionString[c], None)
    /\ logged' = [logged EXCEPT ![c] = << <<"error", "Could not connect to database using">> >>]
    /\ ret' = [ret EXCEPT ![c] = NoResults]
    /\ pc' = [pc EXCEPT ![c] = "done"]
    /\ UNCHANGED <<reuseMut, opened, params, conn, ok, db, rows, history, fixed>>

\* sql.Open returns an error: log it, return 0
OpenFail(c) ==
    /\ pc[c] = "open"
    /\ \E e \in env.errs : err' = [err EXCEPT ![c] = e]
    /\ logged' = [logged EXCEPT ![c] = << <<"error", "Could not connect to database using">> >>]
    /\ ret' = [ret EXCEPT ![c] = NoResults]
    /\ pc' = [pc EXCEPT ![c] = "done"]
    /\ UNCHANGED <<shared, params, conn, ok, db, rows, history, fixed>>

\* reuseMut.Lock(); reuseDB[connectionString] = db
Insert(c) ==
    /\ pc[c] = "ilock"
    /\ CanLock(c)
    /\ reuseMut' = [reuseMut EXCEPT !.w = c]
    /\ reuseDB' = MapPut(reuseDB, connectionString[c], db[c])
    /\ pc' = [pc EXCEPT ![c] = "iunlock"]
    /\ UNCHANGED <<opened, params, conn, ok, db, err, rows, ret,
                   logged, history, fixed>>

\* a handler that goes on to the query without the Unlock after the insert
IUnlockForgets(c) ==
    /\ pc[c] = "iunlock"
    /\ pc' = [pc EXCEPT ![c] = "qlock"]
    /\ UNCHANGED <<shared, params, conn, ok, db, err, rows, ret, logged, history, fixed>>

\* reuseMut.Unlock() after the insert
IUnlock(c) ==
    /\ pc[c] = "iunlock"
    /\ reuseMut' = [reuseMut EXCEPT !.w = None]
    /\ pc' = [pc EXCEPT ![c] = "qlock"]
    /\ UNCHANGED <<reuseDB, opened, params, conn, ok, db, err, rows, ret,
                   logged, history, fixed>>

\* a handler that takes the lock shared for the query
QLockShared(c) ==
    /\ pc[c] = "qlock"
    /\ CanRLock(c)
    /\ reuseMut' = [reuseMut EXCEPT !.r = @ \cup {c}]
    /\ pc' = [pc EXCEPT ![c] = "query"]
    /\ UNCHANGED <<reuseDB, opened, params, conn, ok, db, err, rows, ret,
                   logged, history, fixed>>

\* reuseMut.Lock() before the query
QLock(c) ==
    /\ pc[c] = "qlock"
    /\ CanLock(c)
    /\ reuseMut' = [reuseMut EXCEPT !.w = c]
    /\ pc' = [pc EXCEPT ![c] = "query"]
    /\ UNCHANGED <<reuseDB, opened, params, conn, ok, db, err, rows, ret,
                   logged, history, fixed>>

\* the cursors a query may return
QueryCursors == Cursors(engine, env.maxRows)

\* rows, err := db.Query(query, queryArgs...): an error, a nil cursor or a cursor
Query(c) ==
    /\ pc[c] = "query"
    /\ \/ \E e \in env.errs :
            /\ err' = [err EXCEPT ![c] = e]
            /\ rows' = [rows EXCEPT ![c] = NoRows]
       \/ \E r \in {NilRows} \cup QueryCursors :
            /\ err' = [err EXCEPT ![c] = NoErr]
            /\ rows' = [rows EXCEPT ![c] = r]
    /\ pc' = [pc EXCEPT ![c] = "qunlock"]
    /\ UNCHANGED <<shared, params, conn, ok, db, ret, logged, history, fixed>>

\* reuseMut.Unlock() after the query.  What follows it reads and writes only
\* the caller's locals, so each branch below is one step with the unlock.
QUnlock(c) ==
    /\ pc[c] = "qunlock"
    /\ reuseMut' = [reuseMut EXCEPT !.w = None]
    /\ UNCHANGED <<reuseDB, opened>>

\* a handler that drops the connection from the map when its query fails
QueryFailedEvicts(c) ==
    /\ pc[c] = "qunlock"
    /\ err[c].set
    /\ reuseMut' = [reuseMut EXCEPT !.w = None]
    /\ reuseDB' = MapDelete(reuseDB, connectionString[c])
    /\ logged' = [logged EXCEPT ![c] = QueryErrLog(err[c])]
    /\ ret' = [ret EXCEPT ![c] = QueryErrReturn(err[c])]
    /\ pc' = [pc EXCEPT ![c] = "done"]
    /\ UNCHANGED <<opened, params, conn, ok, db, err, rows, history, fixed>>

\* a handler that opens a new connection and tries again when the query fails
QueryFailedRetries(c) ==
    /\ QUnlock(c)
    /\ err[c].set
    /\ logged' = [logged EXCEPT ![c] = QueryErrLog(err[c])]
    /\ pc' = [pc EXCEPT ![c] = "open"]
    /\ UNCHANGED <<params, conn, ok, db, err, rows, ret, history, fixed>>

\* if err != nil { classify, log; return 0 }
QueryFailed(c) ==
    /\ QUnlock(c)
    /\ err[c].set
    /\ logged' = [logged EXCEPT ![c] = QueryErrLog(err[c])]
    /\ ret' = [ret EXCEPT ![c] = QueryErrReturn(err[c])]
    /\ pc' = [pc EXCEPT ![c] = "done"]
    /\ UNCHANGED <<params, conn, ok, db, err, rows, history, fixed>>

\* a no-row branch that reports nothing
NilRowsReturnNothing == NoResults

\* if rows == nil { L.Push(L.NewTable()); return 1 }
NilRowsReturn == OneResult(EmptyTable)

NoCursor(c) ==
    /\ QUnlock(c)
    /\ ~err[c].set
    /\ rows[c].kind = "nil"
    /\ ret' = [ret EXCEPT ![c] = NilRowsReturn]
    /\ pc' = [pc EXCEPT ![c] = "done"]
    /\ UNCHANGED <<params, conn, ok, db, err, rows, logged, history, fixed>>

\* MSSQL only: cols, err := rows.Columns() fails: log, return 0
ColumnsFail(c) ==
    /\ QUnlock(c)
    /\ engine = "MSSQL"
    /\ ~err[c].set
    /\ rows[c].kind = "cursor"
    /\ err' = [err EXCEPT ![c] = GenericErr]
    /\ logged' = [logged EXCEPT ![c] = << <<"error", "Failed to get columns">> >>]
    /\ ret' = [ret EXCEPT ![c] = NoResults]
    /\ pc' = [pc EXCEPT ![c] = "done"]
    /\ UNCHANGED <<params, conn, ok, db, rows, history, fixed>>

\* the row loop, the conversion to a Lua table, L.Push(table), return 1
Iterate(c) ==
    /\ QUnlock(c)
    /\ ~err[c].set
    /\ rows[c].kind = "cursor"
    /\ ret' = [ret EXCEPT ![c] = OneResult(ResultTable(engine, rows[c]))]
    /\ pc' = [pc EXCEPT ![c] = "done"]
    /\ UNCHANGED <<params, conn, ok, db, err, rows, logged, history, fixed>>

\* the handler has returned; the caller's Lua state is ready for its next call
Return(c) ==
    /\ pc[c] = "done"
    /\ pc' = [pc EXCEPT ![c] = "idle"]
    /\ connectionString' = [connectionString EXCEPT ![c] = ""]
    /\ args' = [args EXCEPT ![c] = << >>]
    /\ queryArgs' = [queryArgs EXCEPT ![c] = << >>]
    /\ conn' = [conn EXCEPT ![c] = None]
    /\ ok' = [ok EXCEPT ![c] = FALSE]
    /\ db' = [db EXCEPT ![c] = None]
    /\ err' = [err EXCEPT ![c] = NoErr]
    /\ rows' = [rows EXCEPT ![c] = NoRows]
    /\ ret' = [ret EXCEPT ![c] = NoResults]
    /\ logged' = [logged EXCEPT ![c] = << >>]
    /\ UNCHANGED <<shared, history, fixed>>

Next ==
    \/ \E c \in Callers, d \in Descriptors : Begin(c, d)
    \/ \E c \in Callers : Lookup(c)
    \/ \E c \in Callers : RUnlock(c)
    \/ \E c \in Callers : PingOk(c)
    \/ \E c \in Callers : PingFail(c)
    \/ \E c \in Callers : Delete(c)
    \/ \E c \in Callers : DUnlock(c)
    \/ \E c \in Callers : OpenOk(c)
    \/ \E c \in Callers : OpenFail(c)
    \/ \E c \in Callers : Insert(c)
    \/ \E c \in Callers : IUnlock(c)
    \/ \E c \in Callers : QLock(c)
    \/ \E c \in Callers : Query(c)
    \/ \E c \in Callers : QueryFailed(c)
    \/ \E c \in Callers : NoCursor(c)
    \/ \E c \in Callers : ColumnsFail(c)
    \/ \E c \in Callers : Iterate(c)
    \/ \E c \in Callers : Return(c)

Spec == Init /\ [][Next]_vars

SpecSeq == InitSeq /\ [][Next]_vars

SpecBind == InitBind /\ [][Next]_vars

\* the steps of caller c's handler once it has been called
Step(c) ==
    \/ Lookup(c) \/ RUnlock(c)
    \/ PingOk(c) \/ PingFail(c)
    \/ Delete(c) \/ DUnlock(c)
    \/ OpenOk(c) \/ OpenFail(c)
    \/ Insert(c) \/ IUnlock(c)
    \/ QLock(c) \/ Query(c)
    \/ QueryFailed(c) \/ NoCursor(c) \/ ColumnsFail(c) \/ Iterate(c)

\* Every goroutine that is in the handler and can take a step takes one in
\* the end: ping, open, query and the row loop return, a lock that stays free
\* is granted, and the scheduler starves no goroutine.  No call is ever
\* required to begin, and a caller need not come back for its result.
Fairness == \A c \in Callers : WF_vars(Step(c))

SpecFair == Init /\ [][Next]_vars /\ Fairness

\* the steps of a call against a backend that stays live
NextLive ==
    \/ \E c \in Callers, d \in Descriptors : Begin(c, d)
    \/ \E c \in Callers : Lookup(c)
    \/ \E c \in Callers : RUnlock(c)
    \/ \E c \in Callers : PingOk(c)
    \/ \E c \in Callers : OpenOk(c)
    \/ \E c \in Callers : Insert(c)
    \/ \E c \in Callers : IUnlock(c)
    \/ \E c \in Callers : QLock(c)
    \/ \E c \in Callers : Query(c)
    \/ \E c \in Callers : NoCursor(c)
    \/ \E c \in Callers : Iterate(c)
    \/ \E c \in Callers : Return(c)

SpecLive == InitLive /\ [][NextLive]_vars

\* ------------------------------------------------- the wrapper on its own
\* the values a driver hands to Scan: the seven kinds Scan knows and kinds it
\* does not know (bool, the narrower and the unsigned integers, a decimal)
ScanValues ==
    { DV("null", 0, "") }
    \cup { DV(k, n, "") : k \in {"float32", "float64", "int64"}, n \in (0 - MaxNum)..MaxNum }
    \cup { DV(k, 0, s) : k \in {"string", "bytes"}, s \in {"", "x", "12"} }
    \cup { DV("time", ms, "") : ms \in {0 - 1500, 0, 999, 2500} }
    \cup { DV("bool", n, "") : n \in {0, 1} }
    \cup { DV(k, n, "") : k \in {"int32", "int", "uint8"}, n \in 0..MaxNum }
    \cup { DV("decimal", 0, "1.5") }

\* database/sql calls Scan(value) on the wrapper
ScanValue(value) ==
    /\ scanner' = [w |-> ScanInto(scanner.w, value).w, value |-> value,
                   failed |-> ~ScanInto(scanner.w, value).ok]
    /\ UNCHANGED <<shared, pc, params, conn, ok, db, err, rows, ret, logged,
                   history, engine, env>>

NextScan == \E value \in ScanValues : ScanValue(value)

\* no handler is running; values are scanned into one wrapper
InitScan ==
    /\ Fresh
    /\ engine = "MSSQL"
    /\ env = [callers |-> {}, flaky |-> FALSE, errs |-> {}, maxRows |-> 0, maxArgs |-> 0]

SpecScan == InitScan /\ [][NextScan]_vars

\* ================================================================ claims
\* the connections opened for descriptor d, and the one the map holds for it
ConnsFor(d) == { i \in 1..Len(opened) : opened[i] = d }
Mapped(d) == { p[2] : p \in { q \in reuseDB : q[1] = d } }

\* caller c's ping of the cached connection failed in its current call
PingFailed(c) == ok[c] /\ db[c] # conn[c] /\ pc[c] \notin {"idle", "rlock", "runlock", "ping"}

\* caller c is past the insert of a connection it opened in its current call
Inserted(c) ==
    /\ pc[c] \in {"iunlock", "qlock", "query", "qunlock", "done"}
    /\ db[c] # None /\ db[c] # conn[c]

C2_NoLeak ==
    (\A c \in Callers : pc[c] = "idle") =>
        \A i \in 1..Len(opened) : i \in closed \/ i \in Mapped(opened[i])

\* C3: with a backend that stays live, sequential calls on a connection string
\* open one connection in total, and every call runs its query on it.
C3_CacheReuse ==
    /\ \A d \in Descriptors : Cardinality(ConnsFor(d)) <= 1
    /\ \A c \in Callers :
          pc[c] \in {"ilock", "iunlock", "qlock", "query", "qunlock", "done"} =>
              ConnsFor(connectionString[c]) = {db[c]}

\* a later call has run its query on the connection it found in the map
C3_Witness ==
    \E c \in Callers :
        /\ pc[c] = "qunlock" /\ ncalls >= 2
        /\ ok[c] /\ db[c] = conn[c]
        /\ ConnsFor(connectionString[c]) = {db[c]}

\* C4 as stated: a call whose ping of the cached connection failed has, when it
\* returns, opened a new connection, and the old one is no longer in the map.
C4_StaleEvictionAlwaysOpens ==
    \A c \in Callers :
        (pc[c] = "done" /\ PingFailed(c)) =>
            /\ db[c] \in 1..Len(opened) /\ db[c] # conn[c]
            /\ conn[c] \notin Mapped(connectionString[c])

\* C4 as amended: a call whose ping of the cached connection failed deletes
\* the entry and tries to open a new connection.  When the open succeeds the
\* new connection is the one in the map and the one the query runs on; when
\* it fails the call returns no result and runs no query.  Either way the old
\* connection is out of the map from the delete on, and neither this call nor
\* a later sequential call runs a query on a connection that failed a ping.
C4_StaleEviction ==
    \A c \in Callers :
        /\ (PingFailed(c) /\ pc[c] # "dlock") =>
              conn[c] \notin Mapped(connectionString[c])
        /\ (PingFailed(c) /\ pc[c] = "done") =>
              \/ /\ db[c] = None
                 /\ ret[c] = NoResults /\ err[c].set /\ rows[c] = NoRows
              \/ /\ db[c] \in 1..Len(opened) /\ db[c] \notin stale
                 /\ Mapped(connectionString[c]) = {db[c]}
        /\ pc[c] \in {"query", "qunlock"} => db[c] \notin stale
        /\ (pc[c] = "done" /\ db[c] # None) => db[c] \notin stale

\* a call whose ping failed has opened a new connection and returned
C4_Witness ==
    \E c \in Callers :
        /\ pc[c] = "done" /\ PingFailed(c)
        /\ conn[c] \in stale
        /\ db[c] \in 1..Len(opened)
        /\ Mapped(connectionString[c]) = {db[c]}

\* C5: the delete after a failed ping removes the entry only if the map still
\* holds the connection that failed the ping: an entry a concurrent caller has
\* replaced with another connection is never deleted.
C5_GuardedEviction ==
    [][\A c \in Callers :
          (pc[c] = "dlock" /\ pc'[c] = "dunlock") =>
              \A p \in reuseDB \ reuseDB' : p = <<connectionString[c], conn[c]>>]_vars

\* C6 as stated: when a caller inserts the connection it opened, the map does
\* not at that moment hold another connection for the connection string.
C6_NoInsertOverwrites ==
    [][\A c \in Callers :
          (pc[c] = "ilock" /\ pc'[c] = "iunlock") =>
              Mapped(connectionString[c]) \subseteq {db[c]}]_vars

\* C6 as amended: an insert may find an entry a concurrent caller has put
\* there; it replaces that entry in the same step (last writer wins), so right
\* after the insert the map holds for the connection string the inserted
\* connection and no other, and the other entries are as they were.
C6_InsertReplaces ==
    [][\A c \in Callers :
          (pc[c] = "ilock" /\ pc'[c] = "iunlock") =>
              /\ { p \in reuseDB' : p[1] = connectionString[c] }
                    = { <<connectionString[c], db[c]>> }
              /\ { p \in reuseDB' : p[1] # connectionString[c] }
                    = { p \in reuseDB : p[1] # connectionString[c] }]_vars

\* a caller has just inserted its connection while another caller, on the same
\* connection string, had inserted a different one before
C6_Witness ==
    \E c1, c2 \in Callers :
        /\ c1 # c2
        /\ connectionString[c1] = connectionString[c2]
        /\ pc[c1] = "iunlock" /\ Inserted(c2) /\ db[c1] # db[c2]
        /\ conn[c1] = None /\ conn[c2] = None
        /\ Mapped(connectionString[c1]) = {db[c1]}

\* ---- rows
\* whether row r of a cursor scans
RowScans(e, r) == IF e = "MSSQL" THEN ScanRow(r).ok ELSE ScanString(r).ok

\* the index of the first row that fails to scan, Len(data) + 1 when none does
FirstBad(e, data) ==
    IF \A i \in 1..Len(data) : RowScans(e, data[i]) THEN Len(data) + 1
    ELSE CHOOSE k \in 1..Len(data) :
            /\ ~RowScans(e, data[k])
            /\ \A i \in 1..(k - 1) : RowScans(e, data[i])

\* the Lua value of a row that scans
RowValue(e, cols, r) ==
    IF e = "MSSQL" THEN RowMap(cols, ScanRow(r).values) ELSE LString(ScanString(r).value)

\* caller c's call got a cursor and went through its rows
Iterated(c) == pc[c] = "done" /\ rows[c].kind = "cursor" /\ ~err[c].set

\* C7: when the query succeeds and row k of the cursor is the first whose scan
\* fails, the call returns one table holding rows 1..k-1 in cursor order; when
\* no row fails it returns all the rows.
C7_PartialRows ==
    \A c \in Callers :
        Iterated(c) =>
            LET k == FirstBad(engine, rows[c].data)
            IN /\ ret[c].n = 1 /\ Len(ret[c].stack) = 1
               /\ ret[c].stack[1] =
                     [i \in 1..(k - 1) |-> RowValue(engine, rows[c].cols, rows[c].data[i])]

\* row 3 of 5 failed to scan and the call returned rows 1 and 2
C7_Witness ==
    \E c \in Callers :
        /\ Iterated(c)
        /\ Len(rows[c].data) = 5 /\ FirstBad(engine, rows[c].data) = 3
        /\ RowScans(engine, rows[c].data[4])
        /\ Len(ret[c].stack[1]) = 2

\* C8: a failed open or a failed query ends the call with no result value, no
\* rows and no table, whatever the class of the error text.
C8_FailureReturnsNothing ==
    \A c \in Callers :
        (pc[c] = "done" /\ err[c].set) =>
            \A class \in {"connectivity", "malformed", "generic"} :
                Classify(err[c]) = class => ret[c].n = 0 /\ ret[c].stack = << >>

\* a query has failed with an error text of the generic class and the call
\* has returned
C8_Witness ==
    \E c \in Callers :
        /\ pc[c] = "done" /\ err[c].set /\ db[c] # None
        /\ rows[c] = NoRows
        /\ Classify(err[c]) = "generic" /\ err[c].missing

\* C9: a query that succeeds without a cursor returns one value, an empty
\* table, and a failed open or query returns none, so the two differ.
C9_NoRowStatement ==
    \A c \in Callers :
        pc[c] = "done" =>
            /\ (~err[c].set /\ rows[c].kind = "nil") =>
                  ret[c] = [n |-> 1, stack |-> <<EmptyTable>>]
            /\ err[c].set => ret[c].n # 1

\* a query has returned no cursor and the call has returned
C9_Witness ==
    \E c \in Callers :
        pc[c] = "done" /\ ~err[c].set /\ rows[c].kind = "nil" /\ ret[c].n = 1

\* ---- parameters
\* the entries of a table with a numeric key, and those with a string key, in
\* enumeration order
NumericEntries(tb) == SelectSeq(tb, LAMBDA e : e[1].t = "number")
StringEntries(tb) == SelectSeq(tb, LAMBDA e : e[1].t = "string")

\* the plain values among the arguments, in order, and the named ones
PositionalValues(qa) ==
    LET plain == SelectSeq(qa, LAMBDA a : ~a.named)
    IN [i \in 1..Len(plain) |-> plain[i].value]
NamedPairs(qa) == { <<qa[i].name, qa[i].value>> : i \in { j \in 1..Len(qa) : qa[j].named } }

\* the table {1: "a", 2: "b", x: "y"}
ExampleTable == << <<LNumber(1), LString("a")>>, <<LNumber(2), LString("b")>>,
                   <<LString("x"), LString("y")>> >>

\* caller c's call is executing, or has executed, its query
Submitted(c) == pc[c] \in {"query", "qunlock"}

\* C10: the plain arguments submitted with the query are the texts of the
\* values of the numeric-keyed entries, in enumeration order, and the named
\* arguments are the string-keyed entries, key as name and value as text; for
\* {1: "a", 2: "b", x: "y"} they are <<"a", "b">> and {x: "y"}.
C10_ParameterPartition ==
    \A c \in Callers :
        Submitted(c) =>
            /\ PositionalValues(queryArgs[c]) =
                  [i \in 1..Len(NumericEntries(args[c])) |->
                      LuaString(NumericEntries(args[c])[i][2])]
            /\ NamedPairs(queryArgs[c]) =
                  { <<StringEntries(args[c])[i][1].s, LuaString(StringEntries(args[c])[i][2])>> :
                      i \in 1..Len(StringEntries(args[c])) }
            /\ Len(queryArgs[c]) =
                  Len(NumericEntries(args[c])) + Len(StringEntries(args[c]))
            /\ args[c] = ExampleTable =>
                  /\ PositionalValues(queryArgs[c]) = <<"a", "b">>
                  /\ NamedPairs(queryArgs[c]) = { <<"x", "y">> }

\* the query of a call with the table {1: "a", 2: "b", x: "y"} was submitted
C10_Witness ==
    \E c \in Callers :
        /\ pc[c] = "qunlock" /\ args[c] = ExampleTable
        /\ Len(queryArgs[c]) = 3

\* ---- the wrapper
\* C11: Scan turns a float32, a float64 and an int64 into a number, a string
\* and a byte slice into a string, a time into the number of seconds since
\* the epoch and NULL into nil, and returns no error for them; for a value of
\* any other kind (a bool, a 32-bit integer, ...) it returns an error and
\* leaves the wrapper as it was.
C11_ScanMapping ==
    [][LET v == scanner'.value
           w == scanner'.w
       IN /\ v.kind \in {"float32", "float64", "int64"} =>
                ~scanner'.failed /\ w.t = "number" /\ w.n = v.n
          /\ v.kind \in {"string", "bytes"} =>
                ~scanner'.failed /\ w.t = "string" /\ w.s = v.s
          /\ v.kind = "time" =>
                /\ ~scanner'.failed /\ w.t = "number"
                /\ w.n * 1000 <= v.n /\ v.n < (w.n + 1) * 1000
          /\ v.kind = "null" => ~scanner'.failed /\ w.t = "nil"
          /\ v.kind \notin {"float32", "float64", "int64", "string", "bytes", "time", "null"} =>
                scanner'.failed /\ w = scanner.w]_vars

\* a bool was scanned into a wrapper that held a string from an earlier Scan:
\* the Scan failed and the wrapper still holds the string
C11_Witness ==
    /\ scanner.failed /\ scanner.value.kind = "bool"
    /\ scanner.w = LString("x")

\* ---- the lock
\* caller c holds reuseMut, as a reader or as the writer
HoldsLock(c) == reuseMut.w = c \/ c \in reuseMut.r

\* C12 as stated: no caller holds the lock, shared or exclusive, while it
\* pings, opens or runs a query on a connection.
C12_NoLockDuringIO ==
    \A c \in Callers : pc[c] \in {"ping", "open", "query"} => ~HoldsLock(c)

\* C12 as amended: no caller holds the lock while it pings or opens, so a ping
\* or an open that hangs blocks no other caller; the query is the exception:
\* it runs with the lock held exclusively, so while it runs no other caller
\* holds the lock.
C12_LockOnlyAroundQuery ==
    \A c \in Callers :
        /\ pc[c] \in {"ping", "open"} => ~HoldsLock(c)
        /\ pc[c] = "query" =>
              /\ reuseMut = [w |-> c, r |-> {}]
              /\ \A o \in Callers \ {c} : ~HoldsLock(o)

\* one caller is opening a connection while another, on a different
\* connection string, runs its query with the lock held
C12_Witness ==
    \E c1, c2 \in Callers :
        /\ pc[c1] = "open" /\ pc[c2] = "query"
        /\ connectionString[c1] # connectionString[c2]
        /\ reuseMut.w = c2

\* C13: at most one caller at a time is running a query, whatever the
\* connection strings, and while it runs no other caller is reading or
\* changing the map: none is between a lock and its unlock, none takes the lock
\* for its lookup, delete, insert or query, and the map stays as it is.
C13_QuerySerialized ==
    [][\A c \in Callers :
          pc[c] = "query" =>
              /\ \A o \in Callers \ {c} :
                    /\ pc[o] \notin {"query", "qunlock", "runlock", "dunlock", "iunlock"}
                    /\ pc[o] \in {"rlock", "dlock", "ilock", "qlock"} => pc'[o] = pc[o]
              /\ reuseDB' = reuseDB]_vars

\* a caller runs its query while another, on a different connection string,
\* waits for the lock to look its string up
C13_Witness ==
    \E c1, c2 \in Callers :
        /\ pc[c1] = "query" /\ pc[c2] = "rlock"
        /\ connectionString[c1] # connectionString[c2]
        /\ reuseMut.w = c1 /\ reuseDB # {}

\* ---- failed opens
\* caller c's call has returned because sql.Open failed
OpenFailed(c) == pc[c] = "done" /\ db[c] = None /\ err[c].set

ConnectErrorLog == << <<"error", "Could not connect to database using">> >>

\* C14 as stated: a call whose open failed has logged a connect error,
\* returned no result and run no query, and the map is as it was before the
\* call: the entry the call's lookup found is still there.
C14_OpenFailureNoMutation ==
    \A c \in Callers :
        OpenFailed(c) =>
            /\ logged[c] = ConnectErrorLog
            /\ ret[c] = NoResults /\ rows[c] = NoRows
            /\ ok[c] => <<connectionString[c], conn[c]>> \in reuseDB

\* C14 as amended: the failed open logs a connect error, returns no result,
\* runs no query and itself leaves the map as it is.  The call as a whole
\* changes the map in one case only: when its lookup found a connection whose
\* ping failed, it has deleted the entry of its connection string before the
\* open.  So after the call the map is the map before the call without an
\* entry for the call's connection string.
C14_OpenFailure ==
    [][\A c \in Callers :
          /\ (pc[c] = "open" /\ pc'[c] = "done") =>
                /\ reuseDB' = reuseDB /\ opened' = opened
                /\ logged'[c] = ConnectErrorLog
                /\ ret'[c] = NoResults /\ rows'[c] = NoRows /\ err'[c].set
                /\ Mapped(connectionString[c]) = {}
          /\ (pc[c] \in {"rlock", "runlock", "ping"} /\ pc'[c] # pc[c]) =>
                reuseDB' = reuseDB
          /\ (pc[c] = "dlock" /\ pc'[c] # pc[c]) =>
                reuseDB' = reuseDB \ {<<connectionString[c], conn[c]>>}
          /\ (pc[c] = "dunlock" /\ pc'[c] # pc[c]) => reuseDB' = reuseDB]_vars

\* the ping of the cached connection failed, the entry was deleted, the open
\* failed and the call has returned: the connection string has no entry, and
\* the entry of the other connection string is still there
C14_Witness ==
    \E c \in Callers :
        /\ OpenFailed(c) /\ ok[c] /\ conn[c] \in stale
        /\ Mapped(connectionString[c]) = {}
        /\ reuseDB # {}

\* ---- cache hits
\* caller c's lookup found a connection and its ping passed
PingPassed(c) == ok[c] /\ db[c] # None /\ db[c] = conn[c]

\* C15: a call whose lookup finds a connection that passes its ping goes from
\* the ping straight to the query, runs the query on that connection, opens no
\* connection, and none of its steps changes the map.
C15_HitIsMutationFree ==
    [][\A c \in Callers :
          /\ (pc[c] = "ping" /\ pc'[c] # pc[c] /\ db'[c] # None) =>
                /\ db'[c] = conn[c] /\ pc'[c] = "qlock"
                /\ reuseDB' = reuseDB /\ opened' = opened
          /\ (PingPassed(c) /\ pc'[c] # pc[c]) =>
                /\ pc[c] \in {"qlock", "query", "qunlock", "done"}
                /\ reuseDB' = reuseDB /\ opened' = opened
                /\ pc[c] # "done" => db'[c] = conn[c]]_vars

\* a call found a connection that another caller had opened, its ping passed,
\* and it has run its query on it and returned a result
C15_Witness ==
    \E c \in Callers :
        /\ pc[c] = "done" /\ PingPassed(c) /\ ret[c].n = 1
        /\ \E o \in Callers \ {c} : db[o] = db[c] /\ ~ok[o]

\* ---- no retry
\* how far into the handler a position is
StepRank(p) ==
    CASE p = "idle" -> 0 [] p = "rlock" -> 1 [] p = "runlock" -> 2
      [] p = "ping" -> 3 [] p = "dlock" -> 4 [] p = "dunlock" -> 5
      [] p = "open" -> 6 [] p = "ilock" -> 7 [] p = "iunlock" -> 8
      [] p = "qlock" -> 9 [] p = "query" -> 10 [] p = "qunlock" -> 11
      [] p = "done" -> 12

\* C16: within a call the handler only moves forward: the ping is one step,
\* taken only from the position after the lookup, the open one step taken
\* only from the position before the insert, the query one step taken only
\* with the lock held, and no step leads back to a position at or before the
\* one it leaves.  So a call pings at most once, opens at most once and runs
\* at most one query, whatever these return.
C16_NoRetry ==
    [][\A c \in Callers :
          pc'[c] # pc[c] =>
              /\ \/ pc[c] = "done" /\ pc'[c] = "idle"
                 \/ pc[c] # "done" /\ StepRank(pc'[c]) > StepRank(pc[c])
              /\ stale' # stale => pc[c] = "ping"
              /\ opened' # opened => pc[c] = "open"
              /\ (err'[c] # err[c] /\ pc'[c] = "done" /\ db[c] = None) => pc[c] = "open"
              /\ rows'[c] # rows[c] => pc[c] \in {"query", "done"}]_vars

\* a call whose ping failed and whose query on the new connection failed has
\* returned
C16_Witness ==
    \E c \in Callers :
        /\ pc[c] = "done" /\ PingFailed(c) /\ conn[c] \in stale
        /\ db[c] \in 1..Len(opened) /\ err[c].set /\ rows[c] = NoRows

\* ---- the shape of a row
\* the (column name, value) pairs a returned row holds
PairsOf(row) == { <<name, row[name]>> : name \in DOMAIN row }

\* C17 as stated: every returned row holds one (column name, value) pair for
\* each column of the result, the pair of column i being the name of column i
\* with the value scanned from it, also when two columns have the same name.
C17_OnePairPerColumn ==
    \A c \in Callers :
        (Iterated(c) /\ engine = "MSSQL") =>
            \A j \in 1..Len(ret[c].stack[1]) :
                /\ Cardinality(PairsOf(ret[c].stack[1][j])) = Len(rows[c].cols)
                /\ \A i \in 1..Len(rows[c].cols) :
                      <<rows[c].cols[i], Scan(rows[c].data[j][i]).w>>
                          \in PairsOf(ret[c].stack[1][j])

\* C17 as amended: every returned row is a table keyed by column name, with
\* one entry for each distinct name among the columns of the result; looked up
\* by a name it gives the value scanned from the last column of that name, so
\* of two columns with the same name only the later one is in the row, and the
\* row keeps no column order.
C17_RowsByColumnName ==
    \A c \in Callers :
        (Iterated(c) /\ engine = "MSSQL") =>
            LET cols == rows[c].cols
            IN \A j \in 1..Len(ret[c].stack[1]) :
                  LET row == ret[c].stack[1][j]
                  IN /\ DOMAIN row = { cols[i] : i \in 1..Len(cols) }
                     /\ \A i \in 1..Len(cols) :
                           (\A k \in (i + 1)..Len(cols) : cols[k] # cols[i]) =>
                               row[cols[i]] = Scan(rows[c].data[j][i]).w

\* a cursor with two columns named "a" gave a row whose two values differ,
\* and the returned row holds the second
C17_Witness ==
    \E c \in Callers :
        /\ Iterated(c) /\ engine = "MSSQL"
        /\ rows[c].cols = <<"a", "a">>
        /\ Len(ret[c].stack[1]) >= 1
        /\ rows[c].data[1][1] # rows[c].data[1][2]
        /\ ret[c].stack[1][1]["a"] = Scan(rows[c].data[1][2]).w

\* ---- unsupported parameter entries
\* an entry whose key is a number or a string and whose value is a scalar
Supported(entry) ==
    /\ entry[1].t \in {"number", "string"}
    /\ entry[2].t \in {"number", "string", "boolean"}

\* C18: an entry whose key is neither a number nor a string, or whose value
\* is not a scalar, adds no argument, plain or named, to the query, and the
\* call goes on to its query all the same: the arguments are those of the
\* supported entries, in enumeration order.
C18_UnsupportedSkipped ==
    \A c \in Callers :
        Submitted(c) =>
            queryArgs[c] = ForEachBind(SelectSeq(args[c], Supported), 1, << >>)

\* ---- termination
\* C19: when every ping, open, query and row loop returns and the scheduling
\* is fair, every call that has begun returns, whatever the other callers do
\* meanwhile, and on every path, successful or failed, the caller holds no
\* lock when it returns.
C19_CallsReturn ==
    /\ \A c \in Callers : (pc[c] # "idle") ~> (pc[c] = "done")
    /\ [](\A c \in Callers : pc[c] = "done" => ~HoldsLock(c))

\* a caller has returned from a failed call and holds no lock, while another
\* caller that waited for the lock runs its query on the same connection string
C19_Witness ==
    \E c1, c2 \in Callers :
        /\ pc[c1] = "done" /\ err[c1].set /\ ~HoldsLock(c1)
        /\ pc[c2] = "query" /\ reuseMut.w = c2
        /\ connectionString[c1] = connectionString[c2]

\* ---- the connection a query runs on
\* C20: the connection a call runs its query on is one the call got in one of
\* two ways: its lookup found it and its ping passed, or the call opened it.
\* It never failed a ping.  A connection the call opened is in the map under
\* the call's connection string before the query runs, so with one caller the
\* map holds, while the query runs, exactly that connection for the string.
C20_QueryOnCheckedConnection ==
    /\ [](\A c \in Callers :
            pc[c] \in {"query", "qunlock"} =>
                /\ db[c] \in 1..Len(opened) /\ db[c] \notin stale
                /\ opened[db[c]] = connectionString[c]
                /\ Mapped(connectionString[c]) = {db[c]})
    /\ [][\A c \in Callers :
            (db'[c] # db[c] /\ db'[c] # None) =>
                \/ /\ pc[c] = "ping" /\ ok[c] /\ db'[c] = conn[c]
                   /\ stale' = stale
                \/ /\ pc[c] = "open" /\ pc'[c] = "ilock"
                   /\ opened' = Append(opened, connectionString[c])
                   /\ db'[c] = Len(opened')]_vars

\* the ping of the cached connection failed and the call runs its query on
\* the connection it opened instead, which the map now holds
C20_Witness ==
    \E c \in Callers :
        /\ pc[c] = "query" /\ ok[c] /\ conn[c] \in stale
        /\ db[c] = Len(opened) /\ db[c] # conn[c]
        /\ Mapped(connectionString[c]) = {db[c]}

\* ---- failed queries
\* caller c's query has failed, and c has not yet left the call
QueryFailedOn(c) ==
    /\ pc[c] \in {"qunlock", "done"}
    /\ db[c] # None /\ err[c].set /\ rows[c] = NoRows

\* C21 as stated: the steps of a call whose query failed leave the map as it
\* is and close nothing, and the connection the query failed on leaves the map
\* only when a ping of that connection has failed.
C21_RemovedOnlyAfterOwnPing ==
    [][\A c \in Callers :
          QueryFailedOn(c) =>
              /\ pc'[c] # pc[c] => reuseDB' = reuseDB
              /\ db[c] \notin closed
              /\ <<connectionString[c], db[c]>> \in reuseDB \ reuseDB' =>
                    db[c] \in stale']_vars

\* C21 as amended: the steps of a call whose query failed leave the map as it
\* is and close nothing.  The connection, like every connection in the map,
\* leaves the map in one of two ways only: a caller with the same connection
\* string whose ping failed deletes the entry of the string (whichever
\* connection the entry holds by then), or a caller with the same connection
\* string puts the connection it opened in its place.
C21_QueryFailureKeepsMap ==
    [][/\ \A c \in Callers :
            QueryFailedOn(c) =>
                /\ pc'[c] # pc[c] => reuseDB' = reuseDB
                /\ db[c] \notin closed
       /\ \A p \in reuseDB \ reuseDB' :
            \E o \in Callers :
                /\ connectionString[o] = p[1]
                /\ \/ /\ pc[o] = "dlock" /\ pc'[o] = "dunlock"
                      /\ ok[o] /\ conn[o] \in stale
                      /\ \A q \in reuseDB' : q[1] # p[1]
                   \/ /\ pc[o] = "ilock" /\ pc'[o] = "iunlock"
                      /\ db[o] # p[2]
                      /\ <<p[1], db[o]>> \in reuseDB']_vars

\* a call whose query failed has returned and the map still holds, for its
\* connection string, the connection the query failed on, while another
\* caller with the same connection string is about to ping that connection
C21_Witness ==
    \E c, o \in Callers :
        /\ pc[c] = "done" /\ QueryFailedOn(c)
        /\ Mapped(connectionString[c]) = {db[c]}
        /\ o # c /\ pc[o] = "ping" /\ conn[o] = db[c]

====
